---- MODULE Spec2Model ----
(***************************************************************************)
(* Finite transition systems of tulip/transys/transys.py: the builders     *)
(* (tuple2fts), the merge (__add__) and the two products (sync_prod,       *)
(* async_prod) of FiniteTransitionSystem.                                  *)
(*                                                                         *)
(* Values.  An optional value (Python None or a value) is a set with at    *)
(* most one element.  A Python identifier of a state or of an action is a  *)
(* sequence of strings: <<"x0">> for the atom 'x0', and the prefix code    *)
(* <<"(">> \o u \o v for the tuple (u, v) of a product.  A state label is  *)
(* a set of propositions; a state carries zero or one label, an edge zero  *)
(* or one action.                                                          *)
(***************************************************************************)
EXTENDS Integers, Sequences, FiniteSets, TLC

VARIABLES
    obj,     \* handle -> body it refers to (0: the name is not bound)
    store,   \* body -> the containers of one transition system
    last,    \* the last operation: its name, operands, result handle, the store before it
    nops,    \* operations performed so far
    inp,     \* the arguments of the tuple2fts call under study
    out,     \* what that call returned or raised
    pc       \* "start" before the call, "done" after it

vars == <<obj, store, last, nops, inp, out, pc>>

\* ---------------------------------------------------------------- bounds
MaxN == 2        \* longest state list S handed to tuple2fts, longest list L of line/cycle
MaxOps == 2      \* operations in one run of the object machine
MaxObj == 3      \* names (handles) a run may bind
MaxPairs == 1    \* most tuple constructors in one state identifier
MaxStart == 1    \* largest starting index m handed to line_labeled_with
MaxAps == 3      \* longest list handed to negation_closure

\* ---------------------------------------------------------------- values
None == {}
Some(x) == {x}
The(o) == CHOOSE x \in o : TRUE

Props == {"p", "q"}
PropOrder == <<"p", "q">>
Acts == {"a", "b"}
Digits == <<"0", "1", "2", "3", "4", "5", "6", "7", "8", "9">>

Range(f) == {f[i] : i \in DOMAIN f}

\* a state handed to tuple2fts is a Python int or a Python str
PyInt(n) == [int |-> n]
PyStr(s) == [name |-> s]

\* str(v): the decimal digit of a one-digit int, a str as it is
str(v) == IF "int" \in DOMAIN v THEN Digits[v.int + 1] ELSE v.name

Atom(s) == <<s>>
Pair(u, v) == <<"(">> \o u \o v

\* the tuple constructors of an identifier
Opens(id) == Cardinality({i \in DOMAIN id : id[i] = "("})

\* ---------------------------------------------------------------- a system
\* FiniteTransitionSystem.__init__: empty graph, seeded AP and action sets
FiniteTransitionSystem(atomic_propositions, actions) ==
    [kind    |-> "FiniteTransitionSystem",
     states  |-> {},
     initial |-> {},
     ap      |-> atomic_propositions,
     actions |-> actions,
     label   |-> <<>>,
     trans   |-> {}]

FTS == FiniteTransitionSystem({}, {})

\* OpenFiniteTransitionSystem.__init__: a LabeledStateDiGraph that is no
\* FiniteTransitionSystem, with two action sets and no attribute 'actions'
OpenFiniteTransitionSystem(atomic_propositions, sys_actions, env_actions) ==
    [kind        |-> "OpenFiniteTransitionSystem",
     states      |-> {},
     initial     |-> {},
     ap          |-> atomic_propositions,
     sys_actions |-> sys_actions,
     env_actions |-> env_actions,
     label       |-> <<>>,
     trans       |-> {}]

\* automata.BuchiAutomaton: states, initial states, accepting states and a
\* transition relation <<q, symbol, q'>> keyed by a subset of the propositions
BuchiAutomaton(states, initial, accepting, trans) ==
    [kind      |-> "BuchiAutomaton",
     states    |-> states,
     initial   |-> initial,
     accepting |-> accepting,
     trans     |-> trans]

\* None
PyNone == [kind |-> "NoneType"]

\* isinstance(x, FiniteTransitionSystem)
isinstance(x, cls) == x.kind = cls

\* a computation on a system that may have raised
Ok(s) == [s |-> s, e |-> "ok"]
Fail(r, e) == [r EXCEPT !.e = e]

\* the label of a state as states.label_of gives it: no label reads as the empty set
label_of(sys, x) == IF sys.label[x] = None THEN {} ELSE The(sys.label[x])

\* ---------------------------------------------------------------- graph interface
\* states.add: a state that is present stays as it is
states_add(r, x) ==
    IF r.e # "ok" \/ x \in r.s.states THEN r
    ELSE [r EXCEPT !.s.states = @ \cup {x},
                   !.s.label = [y \in r.s.states \cup {x} |->
                                   IF y = x THEN None ELSE r.s.label[y]]]

\* states.add_from
states_add_from(r, xs) ==
    IF r.e # "ok" THEN r
    ELSE [r EXCEPT !.s.states = @ \cup xs,
                   !.s.label = [y \in r.s.states \cup xs |->
                                   IF y \in r.s.states THEN r.s.label[y] ELSE None]]

\* states.label: the state must exist and the label be a subset of AP
states_label(r, x, l) ==
    IF r.e # "ok" THEN r
    ELSE IF x \notin r.s.states THEN Fail(r, "UnknownStateError")
    ELSE IF ~(l \subseteq r.s.ap) THEN Fail(r, "DomainError")
    ELSE [r EXCEPT !.s.label[x] = Some(l)]

\* states.initial |= xs: every initial state must be a state
initial_ior(r, xs) ==
    IF r.e # "ok" THEN r
    ELSE IF ~(xs \subseteq r.s.states) THEN Fail(r, "UnknownStateError")
    ELSE [r EXCEPT !.s.initial = @ \cup xs]

\* atomic_propositions |= aps
ap_ior(r, aps) ==
    IF r.e # "ok" THEN r ELSE [r EXCEPT !.s.ap = @ \cup aps]

\* actions |= acts
actions_ior(r, acts) ==
    IF r.e # "ok" THEN r ELSE [r EXCEPT !.s.actions = @ \cup acts]

\* transitions.add: an unlabeled edge between two existing states
transitions_add(r, u, v) ==
    IF r.e # "ok" THEN r
    ELSE IF ~({u, v} \subseteq r.s.states) THEN Fail(r, "UnknownStateError")
    ELSE [r EXCEPT !.s.trans = @ \cup {<<u, v, None>>}]

\* transitions.add_labeled: the action must belong to the alphabet
transitions_add_labeled(r, u, v, a) ==
    IF r.e # "ok" THEN r
    ELSE IF ~({u, v} \subseteq r.s.states) THEN Fail(r, "UnknownStateError")
    ELSE IF a \notin r.s.actions THEN Fail(r, "DomainError")
    ELSE [r EXCEPT !.s.trans = @ \cup {<<u, v, Some(a)>>}]

\* ---------------------------------------------------------------- tuple2fts
\* A label value of L: the string 'p' (kind "str", elems {"p"}), among them the
\* 2-character string '!p', or a set of strings.
LabelVals ==
    [kind : {"str"}, elems : {{x} : x \in Props \cup {"!p"}}]
        \cup [kind : {"set"}, elems : SUBSET Props]

\* str2singleton: a string becomes the singleton holding it, a set stays
str2singleton(lab) == lab.elems

\* prepend_with: None leaves the identifiers, a string is put before str(s)
prepend_one(s, prepend_str) ==
    IF prepend_str = None THEN Atom(str(s)) ELSE Atom(The(prepend_str) \o str(s))

prepend_with(states, prepend_str) ==
    [i \in DOMAIN states |-> prepend_one(states[i], prepend_str)]

\* An entry of L: a (state, label) tuple (form "pair") or a bare label (form "bare").
\* The 2-unpacking  (state, ap_label) = entry  succeeds on a tuple of two and on
\* any other iterable of exactly two elements: a set of two propositions, a
\* string of two characters.
Unpacks(entry) ==
    \/ entry.form = "pair"
    \/ entry.form = "bare" /\ entry.lab.kind = "set" /\ Cardinality(entry.lab.elems) = 2
    \/ entry.form = "bare" /\ entry.lab.kind = "str" /\ Len(The(entry.lab.elems)) = 2

\* the two elements of a set in the order its iteration gives them; the order
\* belongs to the set object (its hash table), so each entry of L has its own
FirstOf(S, ord) ==
    LET idx == {i \in DOMAIN PropOrder : PropOrder[i] \in S}
        lo == CHOOSE i \in idx : \A j \in idx : i <= j
        hi == CHOOSE i \in idx : \A j \in idx : i >= j
    IN IF ord THEN PropOrder[lo] ELSE PropOrder[hi]

\* pair_labels_with_states: L (optional) as the list the labeling loop walks
zip(states, L) ==
    [i \in 1..(IF Len(states) < Len(L) THEN Len(states) ELSE Len(L)) |->
        [form |-> "pair", st |-> states[i], lab |-> L[i].lab]]

pair_labels_with_states(states, state_labeling) ==
    IF state_labeling = None THEN [e |-> "ok", v |-> <<>>]
    ELSE LET L == The(state_labeling)
         IN IF Len(L) = 0 THEN [e |-> "IndexError", v |-> <<>>]
            ELSE LET isstr == L[1].form = "bare" /\ L[1].lab.kind = "str"
                     state_label_pairs == ~isstr /\ Unpacks(L[1])
                 IN IF state_label_pairs THEN [e |-> "ok", v |-> L]
                    ELSE [e |-> "ok", v |-> zip(states, L)]

\* what  (state, ap_label) = entry  binds for a bare entry that unpacks: the two
\* characters of a string in their order, the two elements of a set in the
\* order fwd of its iteration
Unpacked(lab, fwd) ==
    IF lab.kind = "str"
    THEN [state |-> SubSeq(The(lab.elems), 1, 1), ap_label |-> SubSeq(The(lab.elems), 2, 2)]
    ELSE [state |-> FirstOf(lab.elems, fwd), ap_label |-> FirstOf(lab.elems, ~fwd)]

\* lines 633-639: label the states one entry after the other; ord[i] is the
\* iteration order of the i-th entry
RECURSIVE LabelLoop(_, _, _, _, _)
LabelLoop(r, items, i, prepend_str, ord) ==
    IF r.e # "ok" \/ i > Len(items) THEN r
    ELSE LET it == items[i]
         IN IF ~Unpacks(it) THEN Fail(r, "ValueError")
            ELSE IF it.form = "pair"
                 THEN LabelLoop(states_label(r, prepend_one(it.st, prepend_str),
                                             str2singleton(it.lab)),
                                items, i + 1, prepend_str, ord)
                 ELSE LET got == Unpacked(it.lab, ord[i])
                      IN LabelLoop(states_label(r, prepend_one(PyStr(got.state), prepend_str),
                                                {got.ap_label}),
                                   items, i + 1, prepend_str, ord)

\* lines 642-657: an entry of trans is (from, to) or (from, to, act)
RECURSIVE TransLoop(_, _, _, _, _)
TransLoop(r, transitions, i, labeled, prepend_str) ==
    IF r.e # "ok" \/ i > Len(transitions) THEN r
    ELSE LET t == transitions[i]
             from_state == prepend_one(t.u, prepend_str)
             to_state == prepend_one(t.v, prepend_str)
         IN IF labeled # (t.a # None) THEN Fail(r, "ValueError")
            ELSE TransLoop(IF labeled
                           THEN transitions_add_labeled(r, from_state, to_state,
                                                        Atom(The(t.a)))
                           ELSE transitions_add(r, from_state, to_state),
                           transitions, i + 1, labeled, prepend_str)

\* the iteration orders of the entries of a list of n labels
Orders(n) == [1..n -> BOOLEAN]
Forward(n) == [i \in 1..n |-> TRUE]

tuple2fts(S, S0, AP, L, Act, trans, prepend_str, ord) ==
    LET state_labeling == pair_labels_with_states(S, L)
        states == prepend_with(S, prepend_str)
        initial_states == prepend_with(S0, prepend_str)
        r1 == states_add_from(Ok(FTS), Range(states))
        r2 == initial_ior(r1, Range(initial_states))
        r3 == ap_ior(r2, AP)
        r4 == IF L = None THEN r3
              ELSE LabelLoop(r3, state_labeling.v, 1, prepend_str, ord)
        r5 == IF Act = None THEN TransLoop(r4, trans, 1, FALSE, prepend_str)
              ELSE TransLoop(actions_ior(r4, {Atom(a) : a \in The(Act)}),
                             trans, 1, TRUE, prepend_str)
    IN IF state_labeling.e # "ok" THEN Fail(Ok(FTS), state_labeling.e)
       ELSE IF r5.e # "ok" THEN Fail(Ok(FTS), r5.e)
       ELSE r5

\* ---------------------------------------------------------------- products
\* MathSet.__mul__: the Cartesian product of two action sets, as tuples
Cartesian(A, B) == {Pair(a, b) : a \in A, b \in B}

\* the states a set of edges reaches from the states R
RECURSIVE Reach(_, _)
Reach(R, E) ==
    LET N == R \cup {e[2] : e \in {d \in E : d[1] \in R}}
    IN IF N = R THEN R ELSE Reach(N, E)

\* prod_sys populated over the edges E: the initial pairs, the pairs they reach
\* (each added with the label  label(s1) | label(s2)) and the edges between them
Populate(self, other, prod_sys, E) ==
    LET init == {Pair(i1, i2) : i1 \in self.initial, i2 \in other.initial}
        reached == Reach(init, E)
        lab == [x \in reached |->
                   Some(UNION {label_of(self, c[1]) \cup label_of(other, c[2]) :
                               c \in {d \in self.states \X other.states :
                                        Pair(d[1], d[2]) = x}})]
    IN [prod_sys EXCEPT !.states = @ \cup reached,
                        !.initial = @ \cup init,
                        !.label = [x \in prod_sys.states \cup reached |->
                                      IF x \in reached THEN lab[x] ELSE prod_sys.label[x]],
                        !.trans = @ \cup {e \in E : e[1] \in reached}]

\* LabeledStateDiGraph.tensor_product: both operands step at once, each on a
\* labeled edge, and the product edge carries the pair of the two actions
tensor_product(self, other, prod_sys) ==
    Populate(self, other, prod_sys,
             {<<Pair(e1[1], e2[1]), Pair(e1[2], e2[2]), Some(Pair(The(e1[3]), The(e2[3])))>> :
                 e1 \in {d \in self.trans : d[3] # None},
                 e2 \in {d \in other.trans : d[3] # None}})

\* LabeledStateDiGraph.cartesian_product: one operand steps, the other stays,
\* and the product edge carries the stepping edge's label
cartesian_product(self, other, prod_sys) ==
    Populate(self, other, prod_sys,
             {<<Pair(e1[1], s2), Pair(e1[2], s2), e1[3]>> :
                 e1 \in self.trans, s2 \in other.states}
             \cup
             {<<Pair(s1, e2[1]), Pair(s1, e2[2]), e2[3]>> :
                 s1 \in self.states, e2 \in other.trans})

\* _sync_prod with the interleaving primitive called in place of the tensor one
_sync_prod_interleaved(self, ts) ==
    LET prod_ts == [FTS EXCEPT !.ap = @ \cup (self.ap \cup ts.ap),
                               !.actions = @ \cup Cartesian(self.actions, ts.actions)]
    IN cartesian_product(self, ts, prod_ts)

\* _sync_prod with the action sets united, as async_prod does, in place of multiplied
_sync_prod_union(self, ts) ==
    LET prod_ts == [FTS EXCEPT !.ap = @ \cup (self.ap \cup ts.ap),
                               !.actions = @ \cup (self.actions \cup ts.actions)]
    IN tensor_product(self, ts, prod_ts)

\* FiniteTransitionSystem._sync_prod
_sync_prod(self, ts) ==
    LET prod_ts == [FTS EXCEPT !.ap = @ \cup (self.ap \cup ts.ap),
                               !.actions = @ \cup Cartesian(self.actions, ts.actions)]
    IN tensor_product(self, ts, prod_ts)

\* automata._ts_ba_sync_prod: the product of a transition system and an
\* automaton. The automaton reads the label of the transition-system state as
\* its input symbol: <<s0, q>> is initial when s0 is initial and some initial q0
\* moves to q on label(s0); <<s, q>> steps to <<t, p>> on the action of s -> t
\* when q moves to p on label(t). A product state is labeled with its automaton
\* state, and the states are those reached from the initial ones.
_ts_ba_sync_prod(self, ba) ==
    LET init == {Pair(c[1], Atom(c[2][3])) :
                    c \in {d \in self.initial \X ba.trans :
                             d[2][1] \in ba.initial /\ d[2][2] = label_of(self, d[1])}}
        E == {<<Pair(c[1][1], Atom(c[2][1])), Pair(c[1][2], Atom(c[2][3])), c[1][3]>> :
                 c \in {d \in self.trans \X ba.trans : d[2][2] = label_of(self, d[1][2])}}
        reached == Reach(init, E)
    IN [FTS EXCEPT !.ap = ba.states,
                   !.actions = self.actions,
                   !.states = reached,
                   !.initial = init,
                   !.label = [x \in reached |-> Some({x[Len(x)]})],
                   !.trans = {e \in E : e[1] \in reached}]

\* FiniteTransitionSystem.sync_prod (also __mul__): the product with a closed
\* transition system, the product with a BuchiAutomaton (lines 225-227), and
\* the exception for any other operand (lines 228-229)
sync_prod(self, ts_or_ba) ==
    IF isinstance(ts_or_ba, "FiniteTransitionSystem")
    THEN Ok(_sync_prod(self, ts_or_ba))
    ELSE IF isinstance(ts_or_ba, "BuchiAutomaton")
    THEN Ok(_ts_ba_sync_prod(self, ts_or_ba))
    ELSE [s |-> FTS, e |-> "Exception"]

\* async_prod that populates self in place of a new system
async_prod_inplace(self, ts) ==
    Ok(LET prod_ts == [self EXCEPT !.ap = @ \cup (self.ap \cup ts.ap),
                                   !.actions = @ \cup (self.actions \cup ts.actions)]
       IN cartesian_product(self, ts, prod_ts))

\* async_prod whose AP set is that of self alone
async_prod_selfap(self, ts) ==
    Ok(LET prod_ts == [FTS EXCEPT !.ap = @ \cup self.ap,
                                  !.actions = @ \cup (self.actions \cup ts.actions)]
       IN cartesian_product(self, ts, prod_ts))

\* async_prod with the tensor primitive called in place of the interleaving one
async_prod_tensor(self, ts) ==
    Ok(LET prod_ts == [FTS EXCEPT !.ap = @ \cup (self.ap \cup ts.ap),
                                  !.actions = @ \cup (self.actions \cup ts.actions)]
       IN tensor_product(self, ts, prod_ts))

\* FiniteTransitionSystem.async_prod (also __or__)
async_prod(self, ts) ==
    IF ~isinstance(ts, "FiniteTransitionSystem") THEN [s |-> FTS, e |-> "TypeError"]
    ELSE Ok(LET prod_ts == [FTS EXCEPT !.ap = @ \cup (self.ap \cup ts.ap),
                                       !.actions = @ \cup (self.actions \cup ts.actions)]
            IN cartesian_product(self, ts, prod_ts))

\* ---------------------------------------------------------------- merge
\* the states loop with the labeling inside the test for a new state, so that a
\* state self has already keeps self's label
RECURSIVE MergeStates_keep(_, _, _)
MergeStates_keep(r, other, todo) ==
    IF r.e # "ok" \/ todo = {} THEN r
    ELSE LET state == CHOOSE x \in todo : TRUE
             label == other.label[state]
             r1 == IF state \notin r.s.states
                   THEN (IF label # None
                         THEN states_label(states_add(r, state), state, The(label))
                         ELSE states_add(r, state))
                   ELSE r
         IN MergeStates_keep(r1, other, todo \ {state})

\* lines 189-194: every state of other is added if absent; a state that has a
\* label (a non-empty label dict) has label['ap'] written over self's label
RECURSIVE MergeStates(_, _, _)
MergeStates(r, other, todo) ==
    IF r.e # "ok" \/ todo = {} THEN r
    ELSE LET state == CHOOSE x \in todo : TRUE
             label == other.label[state]
             r1 == IF state \notin r.s.states THEN states_add(r, state) ELSE r
             r2 == IF label # None THEN states_label(r1, state, The(label)) ELSE r1
         IN MergeStates(r2, other, todo \ {state})

\* the edges loop that adds every edge of other as an unlabeled one
RECURSIVE MergeTransitions_unlabeled(_, _)
MergeTransitions_unlabeled(r, todo) ==
    IF r.e # "ok" \/ todo = {} THEN r
    ELSE LET t == CHOOSE x \in todo : TRUE
         IN MergeTransitions_unlabeled(transitions_add(r, t[1], t[2]), todo \ {t})

\* lines 199-205: every edge of other is added, unlabeled or with its action
RECURSIVE MergeTransitions(_, _)
MergeTransitions(r, todo) ==
    IF r.e # "ok" \/ todo = {} THEN r
    ELSE LET t == CHOOSE x \in todo : TRUE
             r1 == IF t[3] = None THEN transitions_add(r, t[1], t[2])
                   ELSE transitions_add_labeled(r, t[1], t[2], The(t[3]))
         IN MergeTransitions(r1, todo \ {t})

\* __add__ that tests the kind of other after the AP sets are united
add_latecheck(self, other) ==
    LET r0 == IF "ap" \in DOMAIN other THEN ap_ior(Ok(self), other.ap)
              ELSE Fail(Ok(self), "AttributeError")
    IN IF ~isinstance(other, "FiniteTransitionSystem")
       THEN (IF r0.e = "ok" THEN Fail(r0, "TypeError") ELSE r0)
       ELSE LET r1 == actions_ior(r0, other.actions)
                r2 == MergeStates(r1, other, other.states)
                r3 == initial_ior(r2, other.initial)
            IN MergeTransitions(r3, other.trans)

\* FiniteTransitionSystem.__add__: what self holds after the merge of other into
\* it, or after the TypeError of lines 180-183
__add__(self, other) ==
    IF ~isinstance(other, "FiniteTransitionSystem") THEN Fail(Ok(self), "TypeError")
    ELSE LET r1 == actions_ior(ap_ior(Ok(self), other.ap), other.actions)
             r2 == MergeStates(r1, other, other.states)
             r3 == initial_ior(r2, other.initial)
         IN MergeTransitions(r3, other.trans)

\* ---------------------------------------------------------------- the builder under study
\* The arguments of one tuple2fts call: S = [0, .., n-1], S0 a prefix of S, AP,
\* the labels (None or one label per state), given bare or as (state, label)
\* tuples, Act (None or a set), at most one transition, the prefix (None or 'x').
\* the state lists: [0, 1, ...], ['p', 'q', ...] or ['!', 'p', ...]
Names == <<"p", "q", "r", "s">>
StateList(n) == [i \in 1..n |-> PyInt(i - 1)]
NameList(n) == [i \in 1..n |-> PyStr(Names[i])]
Marks == <<"!", "p", "q", "r">>
MarkList(n) == [i \in 1..n |-> PyStr(Marks[i])]

TransLists(S) ==
    {<<>>} \cup {<<[u |-> u, v |-> v, a |-> a]>> :
                    u \in Range(S), v \in Range(S), a \in {None, Some("a")}}

BuildInputs ==
    UNION {[S : {S},
            S0 : {SubSeq(S, 1, k) : k \in 0..Len(S)},
            AP : {{"p"}, Props, Props \cup {"!p"}},
            labels : {None} \cup {Some(l) : l \in [DOMAIN S -> LabelVals]},
            form : {"bare", "pair"},
            Act : {None, Some({"a"})},
            trans : TransLists(S),
            prepend_str : {None, Some("x")}] :
           S \in {StateList(n) : n \in 0..MaxN} \cup {NameList(n) : n \in 1..MaxN}
                 \cup {MarkList(n) : n \in 1..MaxN}}

\* the argument L in the form asked for
LabelingOf(S, labels, form) ==
    IF labels = None THEN None
    ELSE Some([i \in DOMAIN The(labels) |->
                  [form |-> form,
                   st |-> IF form = "pair" THEN S[i] ELSE PyInt(0),
                   lab |-> The(labels)[i]]])

Call(in, form, ord) ==
    tuple2fts(in.S, in.S0, in.AP, LabelingOf(in.S, in.labels, form),
              in.Act, in.trans, in.prepend_str, ord)

NoObj == [h \in 1..MaxObj |-> 0]
NoStore == [b \in 1..MaxObj |-> FTS]
NoOp == [op |-> "none", a |-> 0, b |-> 0, r |-> 0, e |-> "ok", pre |-> NoStore]
heap == <<obj, store, last, nops>>

InitBuild ==
    /\ inp \in BuildInputs
    /\ out = Ok(FTS)
    /\ pc = "start"
    /\ obj = NoObj /\ store = NoStore /\ last = NoOp /\ nops = 0

\* the call tuple2fts(S, S0, AP, L, Act, trans, prepend_str=...)
Build ==
    /\ pc = "start"
    /\ \E ord \in Orders(Len(inp.S)) : out' = Call(inp, inp.form, ord)
    /\ pc' = "done"
    /\ UNCHANGED <<inp, heap>>

NextBuild == Build

SpecBuild == InitBuild /\ [][NextBuild]_vars

\* ---------------------------------------------------------------- the object machine
\* Names (handles) refer to bodies; a body holds the containers of one system.
\* Two names that refer to one body share every container.
Handles == 1..MaxObj
Bound == {h \in Handles : obj[h] # 0}
Sys(h) == store[obj[h]]
Least(S) == CHOOSE x \in S : \A y \in S : x <= y
FreshHandle == Least(Handles \ Bound)
FreshBody == Least(Handles \ {obj[h] : h \in Bound})

\* the systems a run starts from, each built by one tuple2fts call
Lab(kind, elems) == [kind |-> kind, elems |-> elems]
Ints(S) == [i \in DOMAIN S |-> PyInt(S[i])]
Edge(u, v, a) == [u |-> PyInt(u), v |-> PyInt(v), a |-> a]
Pairs(S, labels) == Some([i \in DOMAIN labels |-> [form |-> "pair", st |-> PyInt(S[i]), lab |-> labels[i]]])
Bare(labels) == Some([i \in DOMAIN labels |-> [form |-> "bare", st |-> PyInt(0), lab |-> labels[i]]])

BaseSystems ==
    {r.s : r \in {q \in
       {tuple2fts(Ints(<<0, 1>>), Ints(<<0>>), {"p"},
                  Bare(<<Lab("set", {"p"}), Lab("set", {})>>),
                  Some({"a"}), <<Edge(0, 1, Some("a"))>>, None, Forward(3)),
        tuple2fts(Ints(<<0, 1, 2>>), Ints(<<0, 1>>), Props,
                  Pairs(<<0, 1, 2>>, <<Lab("set", {"q"}), Lab("set", Props), Lab("set", {"p"})>>),
                  Some({"a", "b"}), <<Edge(0, 0, Some("b")), Edge(0, 1, Some("a"))>>, Some("x"), Forward(3)),
        tuple2fts(Ints(<<0, 1>>), Ints(<<0>>), {"q"}, None,
                  None, <<Edge(0, 1, None)>>, None, Forward(3)),
        tuple2fts(Ints(<<0, 1, 2>>), Ints(<<1>>), {"q"},
                  Pairs(<<1, 2>>, <<Lab("str", {"q"}), Lab("set", {})>>),
                  Some({"b"}), <<Edge(1, 1, Some("b")), Edge(2, 1, Some("b"))>>, Some("x"),
                  Forward(3))}
       : q.e = "ok"}}

NoBuild == [S |-> <<>>, S0 |-> <<>>, AP |-> {}, labels |-> None, form |-> "pair",
            Act |-> None, trans |-> <<>>, prepend_str |-> None]

Init ==
    /\ obj = [h \in Handles |-> IF h <= 2 THEN h ELSE 0]
    /\ \E T1 \in BaseSystems, T2 \in BaseSystems :
          store = [b \in Handles |-> IF b = 1 THEN T1 ELSE IF b = 2 THEN T2 ELSE FTS]
    /\ last = NoOp
    /\ nops = 0
    /\ inp = NoBuild /\ out = Ok(FTS) /\ pc = "start"

build == <<inp, out, pc>>

\* a call that returns a new system binds it to a fresh name and a fresh body
Returns(name, a, b, sys) ==
    /\ obj' = [obj EXCEPT ![FreshHandle] = FreshBody]
    /\ store' = [store EXCEPT ![FreshBody] = sys]
    /\ last' = [op |-> name, a |-> a, b |-> b, r |-> FreshHandle, e |-> "ok", pre |-> store]
    /\ nops' = nops + 1
    /\ UNCHANGED build

\* a call on the system h that changes it in place (or raises and leaves it)
Mutates(name, h, r) ==
    /\ store' = [store EXCEPT ![obj[h]] = IF r.e = "ok" THEN r.s ELSE @]
    /\ last' = [op |-> name, a |-> h, b |-> 0, r |-> 0, e |-> r.e, pre |-> NoStore]
    /\ nops' = nops + 1
    /\ UNCHANGED <<obj, build>>

CanBind == nops < MaxOps /\ Handles \ Bound # {}
Nests(i, j) == \A x \in Sys(i).states, y \in Sys(j).states : Opens(Pair(x, y)) <= MaxPairs

\* ts = tuple2fts(...)
Tuple2ftsOp ==
    /\ CanBind
    /\ \E T \in BaseSystems : Returns("tuple2fts", 0, 0, T)

\* ts.states.label(x, l), x an initial state of ts
LabelOp(h, x, l) ==
    /\ nops < MaxOps /\ h \in Bound
    /\ Mutates("label", h, states_label(Ok(Sys(h)), x, l))

\* ts.atomic_propositions |= aps
GrowAPOp(h, aps) ==
    /\ nops < MaxOps /\ h \in Bound
    /\ Mutates("grow_ap", h, ap_ior(Ok(Sys(h)), aps))

\* ts.actions |= acts
GrowActionsOp(h, acts) ==
    /\ nops < MaxOps /\ h \in Bound
    /\ Mutates("grow_actions", h, actions_ior(Ok(Sys(h)), acts))

\* ts.states.add(x)
AddStateOp(h, x) ==
    /\ nops < MaxOps /\ h \in Bound
    /\ Mutates("add_state", h, states_add(Ok(Sys(h)), x))

\* ts.transitions.add(u, v), u an initial state of ts
AddTransitionOp(h, u, v) ==
    /\ nops < MaxOps /\ h \in Bound
    /\ Mutates("add_transition", h, transitions_add(Ok(Sys(h)), u, v))

\* r = t + s: t is merged into in place and r is copy.copy(t), a shallow copy:
\* a new name for the containers of t
MergeOp(t, s) ==
    /\ CanBind /\ t \in Bound /\ s \in Bound
    /\ LET m == __add__(Sys(t), Sys(s))
       IN /\ store' = [store EXCEPT ![obj[t]] = m.s]
          /\ obj' = IF m.e = "ok" THEN [obj EXCEPT ![FreshHandle] = obj[t]] ELSE obj
          /\ last' = [op |-> "merge", a |-> t, b |-> s,
                      r |-> IF m.e = "ok" THEN FreshHandle ELSE 0,
                      e |-> m.e, pre |-> store]
          /\ nops' = nops + 1
          /\ UNCHANGED build

\* r = i * j
SyncProdOp(i, j) ==
    /\ CanBind /\ i \in Bound /\ j \in Bound /\ Nests(i, j)
    /\ Returns("sync_prod", i, j, sync_prod(Sys(i), Sys(j)).s)

\* r = i | j
AsyncProdOp(i, j) ==
    /\ CanBind /\ i \in Bound /\ j \in Bound /\ Nests(i, j)
    /\ Returns("async_prod", i, j, async_prod(Sys(i), Sys(j)).s)

Next ==
    \/ Tuple2ftsOp
    \/ \E h \in Bound : \E x \in Sys(h).initial, l \in {{}, {"p"}} : LabelOp(h, x, l)
    \/ \E h \in Bound : GrowAPOp(h, {"q"})
    \/ \E h \in Bound : GrowActionsOp(h, {Atom("b")})
    \/ \E h \in Bound : AddStateOp(h, Atom("z"))
    \/ \E h \in Bound : \E u \in Sys(h).initial, v \in Sys(h).states : AddTransitionOp(h, u, v)
    \/ \E t \in Bound, s \in Bound : MergeOp(t, s)
    \/ \E i \in Bound, j \in Bound : SyncProdOp(i, j)
    \/ \E i \in Bound, j \in Bound : AsyncProdOp(i, j)

Spec == Init /\ [][Next]_vars

\* ---------------------------------------------------------------- operands of another kind
\* the operands that are no closed transition system: an open system, an
\* automaton, None
Foreign ==
    {OpenFiniteTransitionSystem({"q"}, {Atom("a")}, {Atom("b")}),
     BuchiAutomaton({}, {}, {}, {}),
     BuchiAutomaton({"q0", "q1"}, {"q0"}, {"q1"},
                    {<<"q0", {"p"}, "q1">>, <<"q0", {}, "q0">>,
                     <<"q1", {}, "q1">>, <<"q1", {"q"}, "q0">>}),
     PyNone}

\* a call on the system t with the operand x, which is no system of the store:
\* what t holds after it, and the call's result res (what it returned or what it
\* raised), which no name of the store is bound to; inp keeps the operand
Applies(name, t, x, self, res) ==
    /\ store' = [store EXCEPT ![obj[t]] = self]
    /\ last' = [op |-> name, a |-> t, b |-> 0, r |-> 0, e |-> res.e, pre |-> store]
    /\ nops' = nops + 1
    /\ inp' = x
    /\ out' = res
    /\ UNCHANGED <<obj, pc>>

\* t + x
MergeKindOp(t, x) ==
    /\ nops < MaxOps /\ t \in Bound
    /\ LET m == __add__(Sys(t), x) IN Applies("merge", t, x, m.s, m)

\* t | x
AsyncKindOp(t, x) ==
    /\ nops < MaxOps /\ t \in Bound
    /\ Applies("async_prod", t, x, Sys(t), async_prod(Sys(t), x))

\* t * x
SyncKindOp(t, x) ==
    /\ nops < MaxOps /\ t \in Bound
    /\ Applies("sync_prod", t, x, Sys(t), sync_prod(Sys(t), x))

NextKind ==
    \/ \E h \in Bound : \E x \in Sys(h).initial, l \in {{}, {"p"}} : LabelOp(h, x, l)
    \/ \E h \in Bound : GrowAPOp(h, {"q"})
    \/ \E t \in Bound, x \in Foreign : MergeKindOp(t, x)
    \/ \E t \in Bound, x \in Foreign : AsyncKindOp(t, x)
    \/ \E t \in Bound, x \in Foreign : SyncKindOp(t, x)

SpecKind == Init /\ [][NextKind]_vars

\* ---------------------------------------------------------------- negation_closure, line and cycle
\* A Python value handed to negation_closure is a str, a set of strings or the
\* bool True; it is written as a label value: the str 'p' is Lab("str", {"p"}).
PyTrue == [kind |-> "bool", elems |-> {}]
Str(x) == [kind |-> "str", elems |-> {x}]

\* negate that always prepends the marker
negate_prepend(x) == "!" \o x

\* lines 508-514: x.find('!') == 0 holds when x starts with '!'
negate(x) ==
    IF Len(x) > 0 /\ SubSeq(x, 1, 1) = "!" THEN SubSeq(x, 2, Len(x)) ELSE "!" \o x

\* unique: the elements in the order of their first occurrence, each once
unique(ap) ==
    LET keep == {i \in DOMAIN ap : \A j \in 1..(i - 1) : ap[j] # ap[i]}
        Nth(k) == CHOOSE i \in keep : Cardinality({j \in keep : j <= i}) = k
    IN [k \in 1..Cardinality(keep) |-> ap[Nth(k)]]

\* lines 520-523: x and negate(x) for each x in turn, then True; negate calls
\* x.find, which only a str has: any other element raises AttributeError
negation_closure(atomic_propositions) ==
    LET n == Len(atomic_propositions)
        ap == [k \in 1..(2 * n + 1) |->
                 IF k = 2 * n + 1 THEN PyTrue
                 ELSE LET x == atomic_propositions[(k + 1) \div 2]
                      IN IF k % 2 = 1 THEN x ELSE Str(negate(The(x.elems)))]
    IN IF \E i \in 1..n : atomic_propositions[i].kind # "str"
       THEN [e |-> "AttributeError", v |-> <<>>]
       ELSE [e |-> "ok", v |-> unique(ap)]

\* the list AP as the set that  ts.atomic_propositions |= ap  adds; the bool True
\* is written "True" there, a name no proposition of the model has
APName(x) == IF x.kind = "bool" THEN "True" ELSE The(x.elems)
APSet(v) == {APName(v[i]) : i \in DOMAIN v}

\* range(a, b)
range(a, b) == [i \in 1..(b - a) |-> PyInt(a + i - 1)]

\* lines 686-696
line_labeled_with(L, m, ord) ==
    LET n == Len(L)
        S == range(m, m + n)
        S0 == <<>>
        AP == negation_closure(L)
        Act == None
        from_states == range(m, m + n - 1)
        to_states == range(m + 1, m + n)
        trans == [i \in DOMAIN from_states |->
                     [u |-> from_states[i], v |-> to_states[i], a |-> None]]
        labeling == Some([i \in DOMAIN L |-> [form |-> "bare", st |-> PyInt(0), lab |-> L[i]]])
    IN IF AP.e # "ok" THEN Fail(Ok(FTS), AP.e)
       ELSE tuple2fts(S, S0, APSet(AP.v), labeling, Act, trans, Some("s"), ord)

\* lines 721-726
cycle_labeled_with(L, ord) ==
    LET ts == line_labeled_with(L, 0, ord)
    IN IF ts.e # "ok" THEN ts
       ELSE LET last_state == Atom("s" \o str(PyInt(Len(L) - 1)))
                r == transitions_add(ts, last_state, Atom("s0"))
            IN IF r.e # "ok" THEN Fail(Ok(FTS), r.e) ELSE r

\* The arguments of one call: the list L (strings and sets of propositions) and,
\* for line_labeled_with, the starting index m.
LineLabels == LabelVals

LineInputs ==
    UNION {[fn : {"line"}, L : [1..n -> LineLabels], m : 0..MaxStart] \cup
           [fn : {"cycle"}, L : [1..n -> LineLabels], m : {0}] : n \in 0..MaxN}

InitLine ==
    /\ inp \in LineInputs
    /\ out = Ok(FTS)
    /\ pc = "start"
    /\ obj = NoObj /\ store = NoStore /\ last = NoOp /\ nops = 0

\* ts = line_labeled_with(L, m)
LineOp ==
    /\ pc = "start" /\ inp.fn = "line"
    /\ \E ord \in Orders(Len(inp.L)) : out' = line_labeled_with(inp.L, inp.m, ord)
    /\ pc' = "done"
    /\ UNCHANGED <<inp, heap>>

\* ts = cycle_labeled_with(L)
CycleOp ==
    /\ pc = "start" /\ inp.fn = "cycle"
    /\ \E ord \in Orders(Len(inp.L)) : out' = cycle_labeled_with(inp.L, ord)
    /\ pc' = "done"
    /\ UNCHANGED <<inp, heap>>

NextLine == LineOp \/ CycleOp

SpecLine == InitLine /\ [][NextLine]_vars

\* The argument of one negation_closure call: a list of proposition strings,
\* negated ones and a doubly negated one among them.
PropStrings == {"p", "q", "!p", "!!p"}

ClosureInputs == UNION {[1..n -> PropStrings] : n \in 0..MaxAps}

InitClosure ==
    /\ inp \in ClosureInputs
    /\ out = [e |-> "ok", v |-> <<>>]
    /\ pc = "start"
    /\ obj = NoObj /\ store = NoStore /\ last = NoOp /\ nops = 0

\* negation_closure(aps)
ClosureOp ==
    /\ pc = "start"
    /\ out' = negation_closure([i \in DOMAIN inp |-> Str(inp[i])])
    /\ pc' = "done"
    /\ UNCHANGED <<inp, heap>>

NextClosure == ClosureOp

SpecClosure == InitClosure /\ [][NextClosure]_vars

\* ---------------------------------------------------------------- the last call
\* right after a call that returned: its operands as they were before it, its result
After(name) == last.op = name /\ last.e = "ok"
Op1 == last.pre[obj[last.a]]
Op2 == last.pre[obj[last.b]]
Res == store[obj[last.r]]
PairStates(T1, T2) == {Pair(s1, s2) : s1 \in T1.states, s2 \in T2.states}

\* the states of P within n steps of I along the edges of P
RECURSIVE Within(_, _, _)
Within(P, I, n) ==
    IF n = 0 THEN I
    ELSE Within(P, I \cup {e[2] : e \in {d \in P.trans : d[1] \in I}}, n - 1)

\* C1 as stated: the synchronous product P of two closed systems T1, T2 has the
\* transition (s1,s2) --(a1,a2)--> (t1,t2) if and only if T1 has s1 --a1--> t1
\* and T2 has s2 --a2--> t2, for every s1 of T1 and s2 of T2; P has no transition
\* in which only one component moves, and the label of every product state
\* (s1,s2) is label(s1) union label(s2).
C1_SyncRuleEverywhere ==
    After("sync_prod") =>
        /\ \A s1 \in Op1.states, s2 \in Op2.states :
              /\ Pair(s1, s2) \in Res.states =>
                    label_of(Res, Pair(s1, s2)) = label_of(Op1, s1) \cup label_of(Op2, s2)
              /\ \A t1 \in Op1.states, t2 \in Op2.states,
                    a1 \in Op1.actions, a2 \in Op2.actions :
                    <<Pair(s1, s2), Pair(t1, t2), Some(Pair(a1, a2))>> \in Res.trans
                    <=> /\ <<s1, t1, Some(a1)>> \in Op1.trans
                        /\ <<s2, t2, Some(a2)>> \in Op2.trans
        /\ \A e \in Res.trans :
              \E e1 \in Op1.trans, e2 \in Op2.trans :
                 /\ e1[3] # None /\ e2[3] # None
                 /\ e = <<Pair(e1[1], e2[1]), Pair(e1[2], e2[2]),
                          Some(Pair(The(e1[3]), The(e2[3])))>>

\* C1, amended: the synchronous product P of two closed systems T1, T2 has, from
\* each of its states (s1,s2), the transition (s1,s2) --(a1,a2)--> (t1,t2) if and
\* only if T1 has s1 --a1--> t1 and T2 has s2 --a2--> t2, and no transition from
\* a pair that is no state of P; every transition of P is such a joint step
\* (none moves one component alone), and the label of every product state
\* (s1,s2) is label(s1) union label(s2).
C1_SyncRule ==
    After("sync_prod") =>
        /\ Res.states \subseteq PairStates(Op1, Op2)
        /\ \A s1 \in Op1.states, s2 \in Op2.states :
              Pair(s1, s2) \in Res.states =>
                 /\ label_of(Res, Pair(s1, s2)) = label_of(Op1, s1) \cup label_of(Op2, s2)
                 /\ \A t1 \in Op1.states, t2 \in Op2.states,
                       a1 \in Op1.actions, a2 \in Op2.actions :
                       <<Pair(s1, s2), Pair(t1, t2), Some(Pair(a1, a2))>> \in Res.trans
                       <=> /\ <<s1, t1, Some(a1)>> \in Op1.trans
                           /\ <<s2, t2, Some(a2)>> \in Op2.trans
        /\ \A e \in Res.trans :
              /\ e[1] \in Res.states
              /\ \E e1 \in Op1.trans, e2 \in Op2.trans :
                    /\ e1[3] # None /\ e2[3] # None
                    /\ e = <<Pair(e1[1], e2[1]), Pair(e1[2], e2[2]),
                             Some(Pair(The(e1[3]), The(e2[3])))>>

\* a synchronous product of two different systems that has a joint step, a state
\* with a label drawn from both operands, and a joint step of the operands left
\* out of it because it leaves a pair that is no state of the product
C1_Witness ==
    /\ After("sync_prod")
    /\ Op1 # Op2
    /\ Res.trans # {}
    /\ \E e1 \in Op1.trans, e2 \in Op2.trans :
          /\ e1[3] # None /\ e2[3] # None
          /\ Pair(e1[1], e2[1]) \notin Res.states
          /\ <<Pair(e1[1], e2[1]), Pair(e1[2], e2[2]),
               Some(Pair(The(e1[3]), The(e2[3])))>> \notin Res.trans
    /\ \E s1 \in Op1.states, s2 \in Op2.states :
          /\ Pair(s1, s2) \in Res.states
          /\ label_of(Op1, s1) # {} /\ label_of(Op2, s2) # {}
          /\ label_of(Op1, s1) # label_of(Op2, s2)
    /\ Cardinality(Res.trans) < Cardinality(Op1.trans) * Cardinality(Op2.trans)

\* C2 as stated: the asynchronous product P has Actions(P) = Actions(T1) union
\* Actions(T2) and every transition of P changes exactly one component:
\* (s1,s2) --a--> (t1,s2) exists iff s1 --a--> t1 is in T1, (s1,s2) --a--> (s1,t2)
\* exists iff s2 --a--> t2 is in T2, and no transition changes both components.
C2_ExactlyOne ==
    After("async_prod") =>
        /\ Res.actions = Op1.actions \cup Op2.actions
        /\ \A s1 \in Op1.states, s2 \in Op2.states :
              Pair(s1, s2) \in Res.states =>
                 /\ \A t1 \in Op1.states, a \in Res.actions :
                       <<Pair(s1, s2), Pair(t1, s2), Some(a)>> \in Res.trans
                       <=> <<s1, t1, Some(a)>> \in Op1.trans
                 /\ \A t2 \in Op2.states, a \in Res.actions :
                       <<Pair(s1, s2), Pair(s1, t2), Some(a)>> \in Res.trans
                       <=> <<s2, t2, Some(a)>> \in Op2.trans
                 /\ \A t1 \in Op1.states, t2 \in Op2.states :
                       (\E l \in {None} \cup {Some(a) : a \in Res.actions} :
                           <<Pair(s1, s2), Pair(t1, t2), l>> \in Res.trans)
                       => (s1 # t1) # (s2 # t2)

\* C2, amended: Actions(P) = Actions(T1) union Actions(T2); every transition of P
\* is a step of one operand from a state of P with the other component frozen,
\* and every such step is a transition of P, so no transition changes both
\* components and a self-loop of an operand gives a transition that changes none:
\* for t1 # s1, (s1,s2) --a--> (t1,s2) exists iff s1 --a--> t1 is in T1, for
\* t2 # s2, (s1,s2) --a--> (s1,t2) exists iff s2 --a--> t2 is in T2, and
\* (s1,s2) --a--> (s1,s2) exists iff s1 --a--> s1 is in T1 or s2 --a--> s2 in T2.
C2_AsyncRule ==
    After("async_prod") =>
        /\ Res.actions = Op1.actions \cup Op2.actions
        /\ Res.states \subseteq PairStates(Op1, Op2)
        /\ \A e \in Res.trans :
              \E s1 \in Op1.states, s2 \in Op2.states, t1 \in Op1.states, t2 \in Op2.states :
                 /\ e[1] = Pair(s1, s2) /\ e[2] = Pair(t1, t2)
                 /\ \/ t2 = s2 /\ <<s1, t1, e[3]>> \in Op1.trans
                    \/ t1 = s1 /\ <<s2, t2, e[3]>> \in Op2.trans
        /\ \A s1 \in Op1.states, s2 \in Op2.states :
              Pair(s1, s2) \in Res.states =>
                 /\ \A e1 \in Op1.trans :
                       e1[1] = s1 => <<Pair(s1, s2), Pair(e1[2], s2), e1[3]>> \in Res.trans
                 /\ \A e2 \in Op2.trans :
                       e2[1] = s2 => <<Pair(s1, s2), Pair(s1, e2[2]), e2[3]>> \in Res.trans
                 /\ \A t1 \in Op1.states, t2 \in Op2.states, a \in Res.actions :
                       /\ t1 # s1 =>
                            (<<Pair(s1, s2), Pair(t1, s2), Some(a)>> \in Res.trans
                             <=> <<s1, t1, Some(a)>> \in Op1.trans)
                       /\ t2 # s2 =>
                            (<<Pair(s1, s2), Pair(s1, t2), Some(a)>> \in Res.trans
                             <=> <<s2, t2, Some(a)>> \in Op2.trans)
                       /\ t1 # s1 /\ t2 # s2 =>
                            <<Pair(s1, s2), Pair(t1, t2), Some(a)>> \notin Res.trans
                       /\ <<Pair(s1, s2), Pair(s1, s2), Some(a)>> \in Res.trans
                          <=> \/ <<s1, s1, Some(a)>> \in Op1.trans
                              \/ <<s2, s2, Some(a)>> \in Op2.trans

\* an asynchronous product with a step of the first operand, a step of the
\* second, and a self-loop of the second operand alone on one of its states
C2_Witness ==
    /\ After("async_prod")
    /\ \E s1 \in Op1.states, s2 \in Op2.states, t1 \in Op1.states, t2 \in Op2.states,
          a \in Res.actions, b \in Res.actions :
          /\ t1 # s1 /\ t2 # s2
          /\ <<Pair(s1, s2), Pair(t1, s2), Some(a)>> \in Res.trans
          /\ <<Pair(s1, s2), Pair(s1, t2), Some(b)>> \in Res.trans
    /\ \E s1 \in Op1.states, s2 \in Op2.states, a \in Res.actions :
          /\ <<Pair(s1, s2), Pair(s1, s2), Some(a)>> \in Res.trans
          /\ <<s1, s1, Some(a)>> \notin Op1.trans

\* C3: the action alphabet of the synchronous product is exactly the Cartesian
\* product of the operands' alphabets, { (a1,a2) : a1 in Actions(T1), a2 in
\* Actions(T2) }, it has |Actions(T1)| * |Actions(T2)| elements when both
\* alphabets are non-empty, and every product transition carries an action
\* label that is a member of it.
C3_SyncActions ==
    After("sync_prod") =>
        /\ \A a1 \in Op1.actions, a2 \in Op2.actions : Pair(a1, a2) \in Res.actions
        /\ \A c \in Res.actions :
              \E a1 \in Op1.actions, a2 \in Op2.actions : c = Pair(a1, a2)
        /\ (Op1.actions # {} /\ Op2.actions # {}) =>
              Cardinality(Res.actions) = Cardinality(Op1.actions) * Cardinality(Op2.actions)
        /\ \A e \in Res.trans : e[3] # None /\ The(e[3]) \in Res.actions

\* a synchronous product of operands with alphabets of different sizes, one of
\* them with two actions, that has a transition
C3_Witness ==
    /\ After("sync_prod")
    /\ Cardinality(Op1.actions) = 2 /\ Cardinality(Op2.actions) = 1
    /\ Cardinality(Res.actions) = 2
    /\ Res.trans # {}

\* C4: for sync_prod and for async_prod, the initial states of the product are
\* exactly Initial(T1) x Initial(T2), and every state of the product is reached
\* from some initial pair along product transitions.
C4_InitialAndReachable ==
    (After("sync_prod") \/ After("async_prod")) =>
        /\ Res.initial = {Pair(i1, i2) : i1 \in Op1.initial, i2 \in Op2.initial}
        /\ Res.initial \subseteq Res.states
        /\ Within(Res, Res.initial, Cardinality(Res.states)) = Res.states

\* a synchronous product with a state that is not initial (reached by a
\* transition) which leaves a pair of operand states out as unreachable
C4_WitnessSync ==
    /\ After("sync_prod")
    /\ Res.states \ Res.initial # {}
    /\ PairStates(Op1, Op2) \ Res.states # {}

\* the same for an asynchronous product with two initial pairs or more
C4_WitnessAsync ==
    /\ After("async_prod")
    /\ Cardinality(Res.initial) >= 2
    /\ Res.states \ Res.initial # {}
    /\ PairStates(Op1, Op2) \ Res.states # {}

C4_Witness == C4_WitnessSync \/ C4_WitnessAsync

\* C5 as stated: after the merge target + source, every state of source whose
\* label in source is non-empty is labeled in the result exactly as in source,
\* and every state whose source label is empty, or that source does not
\* contain, keeps the label it had in target.
C5_NonEmptyWins ==
    After("merge") =>
        /\ \A s \in Op2.states :
              label_of(Op2, s) # {} => label_of(Res, s) = label_of(Op2, s)
        /\ \A s \in Op1.states :
              (s \notin Op2.states \/ label_of(Op2, s) = {}) =>
                 label_of(Res, s) = label_of(Op1, s)

\* C5, amended: after the merge target + source, every state of source that
\* carries a label in source, the empty label included, is labeled in the
\* result exactly as in source, whatever label target gave it before; every
\* state that source leaves without a label, or does not contain, keeps the
\* label (or the lack of one) it had in target.
C5_LabeledWins ==
    After("merge") =>
        /\ \A s \in Op2.states :
              Op2.label[s] # None => Res.label[s] = Op2.label[s]
        /\ \A s \in Op1.states :
              (s \notin Op2.states \/ Op2.label[s] = None) => Res.label[s] = Op1.label[s]
        /\ \A s \in Op2.states \ Op1.states : Res.label[s] = Op2.label[s]

\* a merge in which source gives the empty label to a state that target labels
\* with propositions, relabels another state of target, and leaves a third
\* state of target, which it has without a label, as target labels it
C5_Witness ==
    /\ After("merge")
    /\ \E s \in Op1.states \cap Op2.states :
          Op2.label[s] = Some({}) /\ label_of(Op1, s) # {} /\ Res.label[s] = Some({})
    /\ \E s \in Op1.states \cap Op2.states :
          /\ label_of(Op2, s) # {} /\ label_of(Op1, s) # {}
          /\ label_of(Op1, s) # label_of(Op2, s)
    /\ \E s \in Op1.states \cap Op2.states :
          Op2.label[s] = None /\ label_of(Op1, s) # {}

\* C6: after the merge target + source of two closed systems, the result's
\* states are States(target) union States(source) (as many as both together
\* when the two sets are disjoint), its initial states, AP and actions are the
\* unions of the operands', and its transitions include every transition of
\* target and of source, labeled as it was or unlabeled as it was.
C6_MergeUnions ==
    After("merge") =>
        /\ Res.states = Op1.states \cup Op2.states
        /\ Op1.states \cap Op2.states = {} =>
              Cardinality(Res.states) = Cardinality(Op1.states) + Cardinality(Op2.states)
        /\ Res.initial = Op1.initial \cup Op2.initial
        /\ Res.ap = Op1.ap \cup Op2.ap
        /\ Res.actions = Op1.actions \cup Op2.actions
        /\ Op1.trans \cup Op2.trans \subseteq Res.trans
        /\ \A e \in Res.trans : e \in Op1.trans \cup Op2.trans

\* a merge of two systems with no state in common, one with labeled edges and
\* the other with an unlabeled edge, each with its own initial state
C6_Witness ==
    /\ After("merge")
    /\ Op1.states # {} /\ Op2.states # {} /\ Op1.states \cap Op2.states = {}
    /\ Op1.initial # {} /\ Op2.initial # {} /\ Op1.initial # Op2.initial
    /\ \E e \in Op1.trans \cup Op2.trans : e[3] = None
    /\ \E e \in Op1.trans \cup Op2.trans : e[3] # None
    /\ Op1.ap # Op2.ap

\* the calls that change a system in place
MutationOps == {"label", "grow_ap", "grow_actions", "add_state", "add_transition"}

\* C7: a system returned by sync_prod, async_prod or merge owns its containers
\* and aliases none of an operand's: the call to a product leaves both of its
\* operands as they were, and a mutation applied next to the returned system
\* (a state or a transition added, a state relabeled, AP or actions grown)
\* changes nothing of either operand, nor does a mutation of an operand change
\* anything of the returned system.
C7_OwnsContainers ==
    [][/\ (last'.op \in {"sync_prod", "async_prod"} /\ nops' = nops + 1) =>
             \A h \in {last'.a, last'.b} : store'[obj[h]] = store[obj[h]]
       /\ (/\ last.op \in {"merge", "sync_prod", "async_prod"} /\ last.e = "ok"
           /\ last'.op \in MutationOps /\ nops' = nops + 1) =>
             /\ last'.a = last.r =>
                   \A k \in {last.a, last.b} : store'[obj[k]] = store[obj[k]]
             /\ last'.a \in {last.a, last.b} =>
                   store'[obj[last.r]] = store[obj[last.r]]]_vars

\* C8: in every system reached by tuple2fts, state labeling, AP growth, merge,
\* sync_prod and async_prod, each state's label is a subset of the current AP
\* set of the system that owns the state; a merge grows the AP set before it
\* writes a label, so none of its label writes is refused, and the AP set of a
\* product is AP(T1) union AP(T2).
C8_LabelsWithinAP ==
    /\ \A h \in Bound : \A s \in Sys(h).states : label_of(Sys(h), s) \subseteq Sys(h).ap
    /\ last.op = "merge" => last.e = "ok"
    /\ (After("sync_prod") \/ After("async_prod")) => Res.ap = Op1.ap \cup Op2.ap

\* a merge whose source labels a state with a proposition that target's AP set
\* lacked
C8_WitnessMerge ==
    /\ After("merge")
    /\ \E s \in Op2.states :
          /\ ~(label_of(Op2, s) \subseteq Op1.ap)
          /\ label_of(Res, s) = label_of(Op2, s)

\* a product with a state label that neither operand's AP set holds alone
C8_WitnessProduct ==
    /\ After("async_prod")
    /\ \E s \in Res.states :
          ~(label_of(Res, s) \subseteq Op1.ap) /\ ~(label_of(Res, s) \subseteq Op2.ap)

\* a label write refused because the label is outside the AP set
C8_WitnessRefused == last.op = "label" /\ last.e = "DomainError"

\* ---------------------------------------------------------------- claims on tuple2fts
Returned == pc = "done" /\ out.e = "ok"

\* the arguments are of the documented types: every label is a subset of AP and
\* every transition carries an action of Act when Act is given, none otherwise
WellFormed(in) ==
    /\ in.labels # None => \A i \in DOMAIN The(in.labels) : The(in.labels)[i].elems \subseteq in.AP
    /\ \A i \in DOMAIN in.trans :
          /\ (in.trans[i].a # None) = (in.Act # None)
          /\ in.trans[i].a # None => The(in.trans[i].a) \in The(in.Act)

\* C9: tuple2fts accepts the labeling in two equivalent forms: for every state
\* list S and every list of labels aligned with S (each a subset of AP of any
\* size, or a proposition string for its singleton), the call with the bare
\* list builds (or raises) what the call with the (state, label) tuples does.
C9_BareEqualsPairs ==
    (pc = "done" /\ inp.labels # None /\ inp.form = "bare" /\ WellFormed(inp)) =>
        out = Call(inp, "pair", Forward(Len(inp.S)))

\* the same, for the lists whose first label is not a set of exactly two
\* propositions (the lists that the 2-unpacking of line 586 does not take for
\* a (state, label) tuple)
C9_BareEqualsPairsButTwo ==
    (/\ pc = "done" /\ inp.labels # None /\ inp.form = "bare" /\ WellFormed(inp)
     /\ ~(/\ Len(The(inp.labels)) > 0
          /\ The(inp.labels)[1].kind = "set"
          /\ Cardinality(The(inp.labels)[1].elems) = 2)) =>
        out = Call(inp, "pair", Forward(Len(inp.S)))

\* what C10 says tuple2fts(S, S0, AP, L, Act, trans, prepend_str=x) returns
Prefixed(in, n) == Atom(The(in.prepend_str) \o str(n))

AsClaimed(in, R) ==
    /\ R.states = {Prefixed(in, n) : n \in Range(in.S)}
    /\ R.initial = {Prefixed(in, n) : n \in Range(in.S0)}
    /\ \A i \in DOMAIN in.S :
          R.label[Prefixed(in, in.S[i])] =
             IF in.labels = None THEN None ELSE Some(The(in.labels)[i].elems)
    /\ R.trans = {<<Prefixed(in, in.trans[i].u), Prefixed(in, in.trans[i].v),
                    IF in.Act = None THEN None ELSE Some(Atom(The(in.trans[i].a)))>> :
                  i \in DOMAIN in.trans}
    /\ R.initial \subseteq R.states
    /\ \A e \in R.trans : e[1] \in R.states /\ e[2] \in R.states

\* C10: tuple2fts applies the prefix uniformly: with prepend_str = x, the call
\* on arguments of the documented types (L, when given, not empty) returns a system whose states are
\* exactly { x+str(s) : s in S }, whose initial states are { x+str(s) : s in S0 },
\* with each label given for s attached to x+str(s) and each transition
\* (u, v[, a]) turned into x+str(u) -> x+str(v), labeled a when Act is given and
\* unlabeled when Act is None; every initial state and transition endpoint is a
\* state of the result.
C10_PrefixUniform ==
    (/\ pc = "done" /\ inp.prepend_str # None /\ WellFormed(inp)
     /\ inp.labels # None => Len(The(inp.labels)) > 0) =>
        out.e = "ok" /\ AsClaimed(inp, out.s)

\* the same for the calls whose L is None, a list of (state, label) tuples, or a
\* bare list that is not empty and whose first label is not a set of exactly
\* two propositions: there the prefix is applied as C10 says
C10_PrefixUniformButTwo ==
    (/\ pc = "done" /\ inp.prepend_str # None /\ WellFormed(inp)
     /\ inp.labels # None =>
           /\ Len(The(inp.labels)) > 0
           /\ inp.form = "bare" => Cardinality(The(inp.labels)[1].elems) # 2) =>
        out.e = "ok" /\ AsClaimed(inp, out.s)

\* ---------------------------------------------------------------- claims on line and cycle
\* the state s_k; the system C11 describes for line_labeled_with(L, m)
Si(k) == Atom("s" \o Digits[k + 1])

LineAsClaimed(L, m, R) ==
    LET n == Len(L)
    IN /\ R.states = {Si(m + i) : i \in 0..(n - 1)}
       /\ \A i \in 0..(n - 1) : R.label[Si(m + i)] = Some(L[i + 1].elems)
       /\ R.trans = {<<Si(m + i), Si(m + i + 1), None>> : i \in 0..(n - 2)}
       /\ R.initial = {}

CycleAsClaimed(L, R) ==
    LET n == Len(L)
        closing == <<Si(n - 1), Si(0), None>>
    IN /\ R.states = {Si(i) : i \in 0..(n - 1)}
       /\ \A i \in 0..(n - 1) : R.label[Si(i)] = Some(L[i + 1].elems)
       /\ R.trans = {<<Si(i), Si(i + 1), None>> : i \in 0..(n - 2)} \cup {closing}
       /\ Cardinality(R.trans) = n
       /\ R.initial = {}
       /\ closing[1] \in R.states /\ closing[2] \in R.states

OnlyStrings(L) == \A i \in DOMAIN L : L[i].kind = "str"

\* C11: for every list L of n >= 1 labels (strings or sets of propositions),
\* line_labeled_with(L, m) builds the states s_m .. s_(m+n-1), s_(m+i) labeled
\* L[i], exactly the n-1 unlabeled transitions s_(m+i) -> s_(m+i+1) and no
\* initial state; cycle_labeled_with(L) builds the same for m = 0 plus the one
\* transition s_(n-1) -> s_0, both ends states of the system.
C11_LineAndCycle ==
    (pc = "done" /\ Len(inp.L) >= 1) =>
        /\ out.e = "ok"
        /\ inp.fn = "line" => LineAsClaimed(inp.L, inp.m, out.s)
        /\ inp.fn = "cycle" => CycleAsClaimed(inp.L, out.s)

\* the same for the lists that are not empty and hold proposition strings only
C11_LineAndCycleOfStrings ==
    (pc = "done" /\ Len(inp.L) >= 1 /\ OnlyStrings(inp.L)) =>
        /\ out.e = "ok"
        /\ inp.fn = "line" => LineAsClaimed(inp.L, inp.m, out.s)
        /\ inp.fn = "cycle" => CycleAsClaimed(inp.L, out.s)

\* every other call raises: the empty list IndexError, a list with a set in it
\* AttributeError
C11_OtherListsRaise ==
    (pc = "done" /\ ~(Len(inp.L) >= 1 /\ OnlyStrings(inp.L))) =>
        out.e = IF OnlyStrings(inp.L) THEN "IndexError" ELSE "AttributeError"

\* L with every proposition string given as the singleton set that holds it
AsSets(L) == [i \in DOMAIN L |-> [kind |-> "set", elems |-> L[i].elems]]

LineCall(fn, L, m, ord) ==
    IF fn = "line" THEN line_labeled_with(L, m, ord) ELSE cycle_labeled_with(L, ord)

\* C12: line_labeled_with and cycle_labeled_with take a proposition string and
\* the singleton set that holds it for the same label: the call on L with any
\* entry 'p' given as {'p'} (or with sets of propositions as entries) succeeds
\* and builds the system that the call on L builds.
C12_StringOrSet ==
    (pc = "done" /\ Len(inp.L) >= 1) =>
        /\ out.e = "ok"
        /\ \A ord \in Orders(Len(inp.L)) : out = LineCall(inp.fn, AsSets(inp.L), inp.m, ord)

\* what the code does instead: a list with a set in it never builds a system
C12_SetsRaise ==
    (pc = "done" /\ ~OnlyStrings(inp.L)) => out.e = "AttributeError"

\* ---------------------------------------------------------------- claims on negation_closure
\* negate as C13 words it: a leading '!' is stripped, else one is put in front
Stripped(p) == SubSeq(p, 2, Len(p))
Marked(p) == Len(p) > 0 /\ SubSeq(p, 1, 1) = "!"
Toggle(p) == IF Marked(p) THEN Stripped(p) ELSE "!" \o p
Doubled(p) == Marked(p) /\ Marked(Stripped(p))

\* p, negate(p) for each p in turn, then True
Raw(aps) ==
    [k \in 1..(2 * Len(aps) + 1) |->
        IF k = 2 * Len(aps) + 1 THEN PyTrue
        ELSE IF k % 2 = 1 THEN Str(aps[(k + 1) \div 2])
        ELSE Str(Toggle(aps[(k + 1) \div 2]))]

First(seq, x) == CHOOSE i \in DOMAIN seq : seq[i] = x /\ \A j \in 1..(i - 1) : seq[j] # x

\* duplicate-free, the element set of C13, in the order of first occurrence
ClosureAsClaimed(aps, v) ==
    /\ \A i, j \in DOMAIN v : i # j => v[i] # v[j]
    /\ Range(v) = {Str(aps[i]) : i \in DOMAIN aps}
                    \cup {Str(Toggle(aps[i])) : i \in DOMAIN aps} \cup {PyTrue}
    /\ \A i, j \in DOMAIN v : i < j => First(Raw(aps), v[i]) < First(Raw(aps), v[j])

StringPart(v) == {The(v[i].elems) : i \in {k \in DOMAIN v : v[k].kind = "str"}}

\* C13 as stated: negation_closure(aps) returns a duplicate-free list whose
\* element set is { p, negate(p) : p in aps } with True, in the order of first
\* occurrence; negate(negate(p)) = p for every p, and the string part of the
\* result is closed under negate.
C13_ClosedUnderNegate ==
    pc = "done" =>
        /\ out.e = "ok" /\ ClosureAsClaimed(inp, out.v)
        /\ \A i \in DOMAIN inp : negate(negate(inp[i])) = inp[i]
        /\ \A x \in StringPart(out.v) : negate(x) \in StringPart(out.v)

\* C13, amended: the same list; negate(negate(p)) = p for every p that does not
\* start with '!!', and the string part of the result is closed under negate
\* when no element of aps starts with '!!'.
C13_ClosedButDoubled ==
    pc = "done" =>
        /\ out.e = "ok" /\ ClosureAsClaimed(inp, out.v)
        /\ \A i \in DOMAIN inp : ~Doubled(inp[i]) => negate(negate(inp[i])) = inp[i]
        /\ (\A i \in DOMAIN inp : ~Doubled(inp[i])) =>
               \A x \in StringPart(out.v) : negate(x) \in StringPart(out.v)

\* a call on a list that holds a proposition, its negation and a repetition:
\* the result is shorter than the list of p, negate(p), True it is made from
C13_Witness ==
    /\ pc = "done" /\ out.e = "ok"
    /\ \E i, j \in DOMAIN inp : inp[i] = "p" /\ inp[j] = "!p"
    /\ \E i, j \in DOMAIN inp : i # j /\ inp[i] = inp[j]
    /\ Len(out.v) = 3
    /\ out.v = <<Str(inp[1]), Str(Toggle(inp[1])), PyTrue>>

\* ---------------------------------------------------------------- claims on operand kinds
\* right after t + x or t | x with x no closed transition system, or t * x with
\* x neither a closed transition system nor a Buchi automaton
KindCall ==
    /\ last.op \in {"merge", "async_prod", "sync_prod"} /\ last.a # 0 /\ last.b = 0
    /\ ~(last.op = "sync_prod" /\ inp.kind = "BuchiAutomaton")

\* C14: operand-kind errors fail fast and leave state unchanged: merge and
\* async_prod with an operand that is no closed FiniteTransitionSystem, and
\* sync_prod with an operand that is neither a closed transition system nor a
\* Buchi automaton, raise an error, return nothing, and leave the receiver's
\* states, initial subset, labels, AP set, action set and transitions as they
\* were before the call.
C14_KindErrorsLeaveReceiver ==
    KindCall =>
        /\ last.e # "ok" /\ last.r = 0
        /\ store[obj[last.a]] = last.pre[obj[last.a]]
        /\ store = last.pre

\* a merge refused for its operand, an open system whose AP set holds a
\* proposition that the receiver, a system with states, lacks
C14_Witness ==
    /\ KindCall /\ last.op = "merge" /\ last.e = "TypeError"
    /\ inp.kind = "OpenFiniteTransitionSystem"
    /\ ~(inp.ap \subseteq Sys(last.a).ap)
    /\ Sys(last.a).states # {}

\* the two products refused for their operand
C14_WitnessAsync ==
    KindCall /\ last.op = "async_prod" /\ last.e = "TypeError" /\ inp.kind = "BuchiAutomaton"

C14_WitnessSync ==
    KindCall /\ last.op = "sync_prod" /\ last.e = "Exception"
             /\ inp.kind = "OpenFiniteTransitionSystem"

====
